---- MODULE Spec2Model ----
(***************************************************************************)
(* MODAX field layer (esp32-field-layer/src/main.cpp): the dual-rate       *)
(* scheduler loop(), the blocking reconnectMQTT(), the safety evaluator    *)
(* checkSafety() with its publication policy, and readSensors().           *)
(*                                                                         *)
(* Time is the millisecond clock millis(), an unsigned ClockBits-bit       *)
(* counter.  Currents are in milliamperes, computed from the raw 12-bit    *)
(* ADC code.  Temperatures are the float values the code computes, held    *)
(* as sign, 24-bit mantissa m and exponent e: the value is m * 2^e.        *)
(***************************************************************************)
EXTENDS Integers, Sequences, FiniteSets, TLC

\* ------------------------------------------------------------------ bounds

\* Width of the millisecond clock (unsigned long is 32 bits on the target; the
\* model keeps the wrapping arithmetic at a width TLC can enumerate).
ClockBits == 13

\* Milliseconds a behaviour may spend outside the reconnect backoff, per
\* environment profile (see Profiles).
MaxSpent == 300
MaxEdgeSpent == 150
MaxBeatSpent == 1300

\* Failed connect attempts (each followed by the 5 s backoff) per behaviour.
MaxRetries == 2
MaxEdgeRetries == 1

\* Losses of an established broker connection per behaviour.
MaxDrops == 1

Modulus == 2 ^ ClockBits

\* ------------------------------------------------------- program constants

SENSOR_INTERVAL == 100
SAFETY_INTERVAL == 50
HEARTBEAT_MS == 1000
RECONNECT_DELAY_MS == 5000
OVERLOAD_MA == 10000
TEMP_LIMIT == 85
ADC_MAX == 4095

\* ------------------------------------------------------------- environment

\* millis() when loop() is first entered: setupWiFi() has delayed 10 ms and
\* then blocks for as long as the access point is away, so the clock may be
\* anywhere, also shortly before it wraps.  The timestamps are still 0.
BootClocks == {10, Modulus - 40}

\* Time taken by one pass through mqttClient.loop() and the return to loop().
IdleDurations == {0, 50}

\* The same in half periods, which lets the two cadences drift out of phase.
FineIdleDurations == {0, 25}

\* Time taken by publishSafetyData() (snprintf, a TCP write, serial output).
PublishDurations == {0, 50}

\* Time taken by readSensors(): negligible, or an overrun of two safety periods.
SensorDurations == {0, 100}

\* Raw levels of a digital input pin (LOW, HIGH).
PinLevels == {0, 1}

\* Raw ADC codes used as current readings on the first channel: about 0 A,
\* the two codes on either side of the 10 A threshold (9.997 A and 10.005 A;
\* no code reads exactly 10 A), and 12.003 A.
CurrentCodes == {2048, 3288, 3289, 3537}

\* Codes used on the second channel: about 0 A, and just over 10 A on the
\* negative branch of abs().
SecondCurrentCodes == {2048, 806}

\* Raw ADC codes used as temperature readings: 50.00001 C, 84.835 C,
\* 85.00002 C and the full-scale code (6920601600 C).
TempCodes == {2275, 2519, 2520, 4095}

Inputs(E, D, C1, C2, T) ==
    [estopPin : E, doorPin : D, adc1 : C1, adc2 : C2, adcT : T]

\* Nominal machine: e-stop released (pulled HIGH), door closed (switch to
\* ground, LOW), no load, 50 C.
NominalInputs == [estopPin |-> 1, doorPin |-> 0, adc1 |-> 2048, adc2 |-> 2048, adcT |-> 2275]

\* Inputs that change while the scheduler runs: both switches, or the
\* e-stop alone.
EstopInputs == Inputs(PinLevels, {0}, {2048}, {2048}, {2275})
TimedInputs == Inputs(PinLevels, PinLevels, {2048}, {2048}, {2275})

\* Inputs injected ahead of a direct call of checkSafety().
EvalInputs == Inputs(PinLevels, PinLevels, CurrentCodes, SecondCurrentCodes, TempCodes)

\* The environments the scheduler is run in.  Each bounds the time spent
\* outside the backoff, the durations of the blocking calls, the pin levels
\* the machine can take, and how often the broker fails.
\*   load : every call may be slow and the link flaps; the machine is nominal.
\*   edge : the e-stop and door switches move; the broker may be away at boot.
\*   beat : a stable link and no sensor overruns, long enough for heartbeats;
\*          the e-stop moves.
LoadProfile ==
    [name |-> "load", horizon |-> MaxSpent, idle |-> FineIdleDurations,
     pub |-> PublishDurations, sens |-> SensorDurations,
     inputs |-> "nominal", retries |-> MaxRetries, drops |-> MaxDrops]
EdgeProfile ==
    [name |-> "edge", horizon |-> MaxEdgeSpent, idle |-> IdleDurations,
     pub |-> PublishDurations, sens |-> SensorDurations,
     inputs |-> "switches", retries |-> MaxEdgeRetries, drops |-> 0]
BeatProfile ==
    [name |-> "beat", horizon |-> MaxBeatSpent, idle |-> IdleDurations,
     pub |-> PublishDurations, sens |-> {0},
     inputs |-> "estop", retries |-> 0, drops |-> 0]
InputsOf(kind) ==
    CASE kind = "nominal" -> {NominalInputs}
      [] kind = "estop" -> EstopInputs
      [] kind = "switches" -> TimedInputs
      [] kind = "bench" -> EvalInputs

Profiles == {LoadProfile, EdgeProfile, BeatProfile}

\* A test bench: time stands still.
BenchProfile ==
    [name |-> "bench", horizon |-> 0, idle |-> {0}, pub |-> {0}, sens |-> {0},
     inputs |-> "bench", retries |-> 0, drops |-> 0]

\* --------------------------------------------------------------- state

VARIABLES
    clock,              \* millis()
    connected,          \* mqttClient.connected()
    lastSensorTime,     \* main.cpp:38
    lastSafetyTime,     \* main.cpp:39
    safetyState,        \* main.cpp:49
    lastSafetyPublish,  \* static local of checkSafety, main.cpp:196
    currentTime,        \* local of loop(), main.cpp:102
    prevEmergencyStop,  \* local of checkSafety, main.cpp:180
    current1, current2, \* locals of checkSafety, main.cpp:187-188 (mA)
    temp1,              \* local of checkSafety, main.cpp:192 (a float)
    pending,            \* publisher calls the publish decision still owes
    pc,                 \* position of the single thread of control
    ret,                \* where the running cadence body returns to
    hw,                 \* raw levels on the input pins
    env,                \* the environment profile of this behaviour
    \* history of the behaviour, read only by the properties
    spent, retries, drops,
    safetyPubs,         \* publishSafetyData() calls of the current evaluation
    signalled,          \* local safety action raised by the current evaluation
    hazardAge,          \* ms the inputs have been unsafe without a signal, -1: none
    ran,                \* cadence bodies dispatched by the current iteration
    dueAtSnap,          \* cadences that were due at the iteration's snapshot
    safetyOwed,         \* "owed": a safety tick was due when readSensors()
                        \* returned; "served": checkSafety() ran since
    cadenceOk,          \* since the last publish: ticks on time, link up
    everPublished,
    retriesSinceEval,   \* failed connects since checkSafety() was last called
    entryState,         \* safetyState on entry to the current evaluation
    why,                \* tests of main.cpp:197-198 that held in this evaluation
    fresh,              \* fields of safetyState the current evaluation has written
    payload,            \* fields of the last message publishSafetyData() built
    delivered,          \* result of its mqttClient.publish() call in the current
                        \* evaluation: "none" (no call), "sent", "failed"
    telemetry,          \* arguments readSensors() handed to publishSensorData()
    mpuOk,              \* result of mpu.getEvent() in the running readSensors():
                        \* "none" (not running), "ok", "failed"
    uptime,             \* milliseconds since power-on, not wrapped
    edgeAge,            \* ms an e-stop press has gone unreported, -1: none
    trueAt,             \* uptime at the snapshot of loop() and at the snapshot
                        \* of the latest dispatch of each cadence
    publishedAt,        \* uptime at which lastSafetyPublish was stamped
    lagAt               \* per cadence: time from the snapshot of the previous
                        \* dispatch to the snapshot of the latest one

evalLocals == <<current1, current2, temp1, entryState, why, fresh>>
pubHist == <<payload, delivered, publishedAt>>
sensLocals == <<telemetry, mpuOk>>
schedHist == <<trueAt, lagAt>>
prog == <<clock, connected, lastSensorTime, lastSafetyTime, safetyState,
          lastSafetyPublish, currentTime, prevEmergencyStop, current1, current2,
          temp1, pending, pc, ret>>
hist == <<spent, retries, drops, safetyPubs, signalled, hazardAge, ran,
          dueAtSnap, safetyOwed, cadenceOk, everPublished, retriesSinceEval>>
vars == <<prog, evalLocals, pubHist, sensLocals, schedHist, hw, env, hist,
          uptime, edgeAge>>

\* ------------------------------------------------------- pure functions

\* Unsigned subtraction at the clock's width (a - b on unsigned long).
Sub(a, b) == (a - b + Modulus) % Modulus

Plus(a, d) == (a + d) % Modulus

Abs(x) == IF x > 0 THEN x ELSE -x

\* readCurrent(): code -> volts (3.3 / 4095 per code) -> (v - 1.65) / 0.1,
\* absolute value.  In mA: |code * 33000 / 4095 - 16500|.
readCurrent(raw) == Abs((raw * 33000) \div ADC_MAX - 16500)

\* Natural numbers of any size, as their digits to the base 2^15, lowest
\* first: the double arithmetic of readTemperature() needs more than 31 bits.
LimbBits == 15
Radix == 2 ^ LimbBits

RECURSIVE Trim(_)
Trim(a) == IF a = <<>> \/ a[Len(a)] # 0 THEN a ELSE Trim(SubSeq(a, 1, Len(a) - 1))

\* The digits of an integer 0 <= n < 2^31
LimbsOf(n) == Trim(<<n % Radix, (n \div Radix) % Radix, n \div (Radix * Radix)>>)

LimbAt(a, i) == IF i <= Len(a) THEN a[i] ELSE 0

RECURSIVE AddFrom(_, _, _, _)
AddFrom(a, b, i, carry) ==
    IF i > Len(a) /\ i > Len(b)
    THEN IF carry = 1 THEN <<1>> ELSE <<>>
    ELSE LET s == LimbAt(a, i) + LimbAt(b, i) + carry
         IN  <<s % Radix>> \o AddFrom(a, b, i + 1, s \div Radix)
BigAdd(a, b) == AddFrom(a, b, 1, 0)

\* a - b, for a >= b
RECURSIVE SubFrom(_, _, _, _)
SubFrom(a, b, i, borrow) ==
    IF i > Len(a)
    THEN <<>>
    ELSE LET s == LimbAt(a, i) - LimbAt(b, i) - borrow
         IN  <<s % Radix>> \o SubFrom(a, b, i + 1, IF s < 0 THEN 1 ELSE 0)
BigSub(a, b) == Trim(SubFrom(a, b, 1, 0))

RECURSIVE LessFrom(_, _, _)
LessFrom(a, b, i) ==
    IF i = 0 THEN FALSE
    ELSE IF a[i] # b[i] THEN a[i] < b[i]
    ELSE LessFrom(a, b, i - 1)
BigLess(a, b) ==
    IF Len(a) # Len(b) THEN Len(a) < Len(b) ELSE LessFrom(a, b, Len(a))

\* a * k, for one digit k
RECURSIVE TimesFrom(_, _, _, _)
TimesFrom(a, k, i, carry) ==
    IF i > Len(a)
    THEN IF carry = 0 THEN <<>> ELSE <<carry>>
    ELSE LET p == a[i] * k + carry
         IN  <<p % Radix>> \o TimesFrom(a, k, i + 1, p \div Radix)
TimesDigit(a, k) == IF k = 0 THEN <<>> ELSE TimesFrom(a, k, 1, 0)

\* a * 2^k
Shl(a, k) ==
    IF a = <<>> THEN a
    ELSE [i \in 1..(k \div LimbBits) |-> 0] \o TimesDigit(a, 2 ^ (k % LimbBits))

\* a * k, for an integer k
RECURSIVE BigTimes(_, _)
BigTimes(a, k) ==
    IF k < Radix THEN TimesDigit(a, k)
    ELSE BigAdd(TimesDigit(a, k % Radix),
                Shl(BigTimes(a, k \div Radix), LimbBits))

\* The number of binary digits of a
BitLen(a) ==
    IF a = <<>> THEN 0
    ELSE LimbBits * (Len(a) - 1)
         + Cardinality({j \in 0..(LimbBits - 1) : 2 ^ j <= a[Len(a)]})

\* Long division to the base 32: the quotient digits i..0 of r / d, and the
\* remainder, for r < 32^(i+1) * d.
RECURSIVE DivStep(_, _, _, _)
DivStep(r, d, i, q) ==
    IF i < 0 THEN [q |-> q, r |-> r]
    ELSE LET t == Shl(d, 5 * i)
             g == CHOOSE x \in 0..31 : /\ ~BigLess(r, TimesDigit(t, x))
                                       /\ BigLess(r, TimesDigit(t, x + 1))
         IN  DivStep(BigSub(r, TimesDigit(t, g)), d, i - 1, q + g * 32 ^ i)

FloatZero == [neg |-> FALSE, m |-> 0, e |-> 0]

\* Assignment to a float: the float nearest to n / d (ties to even), as
\* m * 2^e with 2^23 <= m < 2^24.
ToFloat(neg, n, d) ==
    IF n = <<>> THEN FloatZero
    ELSE LET k0 == 24 + BitLen(d) - BitLen(n)
             n1 == IF k0 > 0 THEN Shl(n, k0) ELSE n
             d1 == IF k0 < 0 THEN Shl(d, -k0) ELSE d
             big == ~BigLess(n1, Shl(d1, 24))
             d2 == IF big THEN Shl(d1, 1) ELSE d1
             k == IF big THEN k0 - 1 ELSE k0
             qr == DivStep(n1, d2, 4, 0)
             twice == Shl(qr.r, 1)
             up == BigLess(d2, twice) \/ (twice = d2 /\ qr.q % 2 = 1)
             m == IF up THEN qr.q + 1 ELSE qr.q
         IN  IF m = 2 ^ 24 THEN [neg |-> neg, m |-> 2 ^ 23, e |-> 1 - k]
             ELSE [neg |-> neg, m |-> m, e |-> -k]

\* The right-hand sides of readTemperature() are double expressions; each is
\* taken exactly, with 3.3 as 33/10 and 3.3 / 4095.0 as 11/13650, and rounded
\* once, at the assignment to a float.  For every one of the 4096 codes this
\* gives the three floats that the code gives.

\* float voltage = rawValue * (3.3 / 4095.0);
Voltage(raw) == ToFloat(FALSE, LimbsOf(11 * raw), LimbsOf(13650))

\* float resistance = 10000.0 * voltage / (3.3 - voltage);
\* At full scale voltage is the float nearest to 3.3, which lies below it: the
\* divisor is the rounding residue, 2^-22 / 5, not zero.
Resistance(v) ==
    IF v.m = 0 THEN FloatZero
    ELSE ToFloat(FALSE, BigTimes(LimbsOf(v.m), 100000),
                 BigSub(Shl(LimbsOf(33), -v.e), LimbsOf(10 * v.m)))

\* float tempC = 25.0 + (resistance - 10000.0) / 100.0;
TempC(r) ==
    LET rn == IF r.e > 0 THEN Shl(LimbsOf(r.m), r.e) ELSE LimbsOf(r.m)
        sc == IF r.e < 0 THEN -r.e ELSE 0
        off == Shl(LimbsOf(7500), sc)
        d == Shl(LimbsOf(100), sc)
    IN  IF BigLess(rn, off) THEN ToFloat(TRUE, BigSub(off, rn), d)
        ELSE ToFloat(FALSE, BigSub(rn, off), d)

readTemperature(raw) == TempC(Resistance(Voltage(raw)))

\* readTemperature() at the codes the temperature pin takes, worked out once.
TemperatureAt == [raw \in TempCodes |-> readTemperature(raw)]

\* t < n for a float t and an integer n in 1..127
FloatBelow(t, n) ==
    \/ t.neg
    \/ t.m = 0
    \/ t.e < -24
    \/ (t.e < 0 /\ t.m < n * 2 ^ (-t.e))

\* !digitalRead(pin)
NotPin(level) == level = 0

OverloadMut(c1, c2) == c1 > OVERLOAD_MA
Overload(c1, c2) == c1 > OVERLOAD_MA \/ c2 > OVERLOAD_MA

\* temp1 < 85.0
TemperatureOkMut(t) == FloatBelow(t, TEMP_LIMIT + 1)
TemperatureOk(t) == FloatBelow(t, TEMP_LIMIT)

EmergencyStopOf(level) == NotPin(level)

DoorClosedOfMut(level) == level # 0
DoorClosedOf(level) == NotPin(level)

UnsafeMut(s) == s.emergencyStop \/ ~s.doorClosed \/ ~s.temperatureOk
Unsafe(s) ==
    s.emergencyStop \/ ~s.doorClosed \/ s.overloadDetected \/ ~s.temperatureOk

\* The composite condition as it stands at the pins.
InputsUnsafe(h) ==
    \/ NotPin(h.estopPin)
    \/ ~NotPin(h.doorPin)
    \/ Overload(readCurrent(h.adc1), readCurrent(h.adc2))
    \/ ~TemperatureOk(TemperatureAt[h.adcT])

Period(cadence) == IF cadence = "safety" THEN SAFETY_INTERVAL ELSE SENSOR_INTERVAL

\* currentTime - last >= period
DueMut(now, last, period) == now >= last + period
Due(now, last, period) == Sub(now, last) >= period

\* lastSafetyTime = currentTime; lastSensorTime = currentTime: a dispatch
\* stamps the snapshot, not the tick it was due at.
StampMut(now, last, period) == Plus(last, period)
Stamp(now, last, period) == now

HeartbeatDueMut(now, last) == Sub(now, last) > HEARTBEAT_MS + 2 * SAFETY_INTERVAL
HeartbeatDue(now, last) == Sub(now, last) > HEARTBEAT_MS

\* Number of publishSafetyData() calls the decision at main.cpp:197 makes.
SafetyPublishCallsNoEdge(prev, cur, now, last) ==
    IF HeartbeatDue(now, last) THEN 1 ELSE 0
SafetyPublishCallsTwice(prev, cur, now, last) ==
    (IF prev # cur THEN 1 ELSE 0) + (IF HeartbeatDue(now, last) THEN 1 ELSE 0)
SafetyPublishCallsOnChange(prev, cur, now, last) ==
    IF entryState # safetyState \/ HeartbeatDue(now, last) THEN 1 ELSE 0
SafetyPublishCalls(prev, cur, now, last) ==
    IF prev # cur \/ HeartbeatDue(now, last) THEN 1 ELSE 0

\* lastSafetyPublish = millis(): the result of the publish call is not
\* looked at.
PublishStampMut(ok, now, last) == IF ok THEN now ELSE last
PublishStamp(ok, now, last) == now

\* Order in which loop() tests the cadences.
DispatchOrderMut == <<"sensor", "safety">>
DispatchOrder == <<"safety", "sensor">>

AllFields == {"emergencyStop", "doorClosed", "overloadDetected", "temperatureOk"}

\* Order of the statements of checkSafety().  The publish decision, with
\* the publisher call and the stamp it may lead to, stands between the last
\* field write and the local safety action.
EvalOrderMut ==
    <<"cs_estop", "cs_door", "cs_decide", "cs_overload", "cs_temp", "cs_action",
      "cs_return">>
EvalOrder ==
    <<"cs_estop", "cs_door", "cs_overload", "cs_temp", "cs_decide", "cs_action",
      "cs_return">>

IndexOf(seq, x) == CHOOSE i \in 1..Len(seq) : seq[i] = x
StepAfter(p) == EvalOrder[IndexOf(EvalOrder, p) + 1]

\* Accelerations the MPU6050 reports (0.01 m/s^2): free fall, and at rest.
VibReadings == {<<0, 0, 0>>, <<12, -30, 981>>}

\* vibX = 0, vibY = 0, vibZ = 0; overwritten only if mpu.getEvent() succeeds.
Vibration(ok, reading) == IF ok THEN reading ELSE <<0, 0, 0>>

\* readSensors() and publishSensorData() hold no assignment to safetyState.
SensorCycleStateMut(s) == [s EXCEPT !.emergencyStop = FALSE]
SensorCycleState(s) == s

\* ------------------------------------------------------------- helpers

Min(a, b) == IF a < b THEN a ELSE b

\* hazardAge after d more milliseconds (saturating just past the deadline).
Aged(age, d) == IF age < 0 THEN age ELSE Min(age + d, SAFETY_INTERVAL + 1)

\* d milliseconds pass.
Elapse(d) ==
    /\ spent + d <= env.horizon
    /\ clock' = Plus(clock, d)
    /\ uptime' = uptime + d
    /\ spent' = spent + d
    /\ hazardAge' = Aged(hazardAge, d)
    /\ edgeAge' = Aged(edgeAge, d)
    /\ UNCHANGED env

NoTime == UNCHANGED <<clock, uptime, spent, hazardAge, edgeAge, env>>

\* ----------------------------------------------------------------- Init

InitCommon ==
    /\ connected = FALSE
    /\ lastSensorTime = 0
    /\ lastSafetyTime = 0
    /\ safetyState = [emergencyStop |-> FALSE, doorClosed |-> TRUE,
                      overloadDetected |-> FALSE, temperatureOk |-> TRUE]
    /\ lastSafetyPublish = 0
    /\ currentTime = 0
    /\ prevEmergencyStop = FALSE
    /\ current1 = 0 /\ current2 = 0 /\ temp1 = FloatZero
    /\ pending = 0
    /\ hw = NominalInputs
    /\ spent = 0 /\ retries = 0 /\ drops = 0
    /\ safetyPubs = 0
    /\ signalled = FALSE
    /\ hazardAge = -1
    /\ ran = <<>>
    /\ dueAtSnap = {}
    /\ safetyOwed = "no"
    /\ cadenceOk = FALSE
    /\ everPublished = FALSE
    /\ retriesSinceEval = 0
    /\ entryState = safetyState
    /\ why = {}
    /\ fresh = {}
    /\ payload = "none"
    /\ delivered = "none"
    /\ publishedAt = 0
    /\ telemetry = "none"
    /\ mpuOk = "none"
    /\ edgeAge = -1
    /\ trueAt = [snap |-> 0, safety |-> 0, sensor |-> 0]
    /\ lagAt = [safety |-> 0, sensor |-> 0]

Init ==
    /\ InitCommon
    /\ env \in Profiles
    /\ clock \in BootClocks
    /\ uptime = clock
    /\ pc = "loop_top"
    /\ ret = "loop_top"

\* ------------------------------------------------------------- loop()

\* main.cpp:97  if (!mqttClient.connected()) reconnectMQTT();
LoopTop ==
    /\ pc = "loop_top"
    /\ pc' = IF connected THEN "service" ELSE "rc_while"
    /\ ran' = <<>>
    /\ dueAtSnap' = {}
    /\ cadenceOk' = (cadenceOk /\ connected)
    /\ NoTime
    /\ UNCHANGED <<connected, lastSensorTime, lastSafetyTime, safetyState,
                   lastSafetyPublish, currentTime, prevEmergencyStop, evalLocals, pubHist, sensLocals, schedHist,
                   pending, ret,
                   hw, retries, drops, safetyPubs, signalled, safetyOwed,
                   everPublished, retriesSinceEval>>

\* main.cpp:140  while (!mqttClient.connected())
RcWhile ==
    /\ pc = "rc_while"
    /\ pc' = IF connected THEN "service" ELSE "rc_connect"
    /\ NoTime
    /\ UNCHANGED <<connected, lastSensorTime, lastSafetyTime, safetyState,
                   lastSafetyPublish, currentTime, prevEmergencyStop, evalLocals, pubHist, sensLocals, schedHist,
                   pending, ret,
                   hw, retries, drops, safetyPubs, signalled, ran, dueAtSnap,
                   safetyOwed, cadenceOk, everPublished, retriesSinceEval>>

\* main.cpp:143  if (mqttClient.connect(device_id)): the broker answers or not.
RcConnect ==
    /\ pc = "rc_connect"
    /\ \E ok \in BOOLEAN :
         /\ ~ok => retries < env.retries
         /\ connected' = ok
         /\ pc' = IF ok THEN "rc_while" ELSE "rc_delay"
         /\ retries' = IF ok THEN retries ELSE retries + 1
         /\ retriesSinceEval' = IF ok THEN retriesSinceEval ELSE retriesSinceEval + 1
    /\ NoTime
    /\ UNCHANGED <<lastSensorTime, lastSafetyTime, safetyState,
                   lastSafetyPublish, currentTime, prevEmergencyStop, evalLocals, pubHist, sensLocals, schedHist,
                   pending, ret,
                   hw, drops, safetyPubs, signalled, ran, dueAtSnap,
                   safetyOwed, cadenceOk, everPublished>>

\* main.cpp:149  delay(5000);
RcDelay ==
    /\ pc = "rc_delay"
    /\ clock' = Plus(clock, RECONNECT_DELAY_MS)
    /\ uptime' = uptime + RECONNECT_DELAY_MS
    /\ hazardAge' = Aged(hazardAge, RECONNECT_DELAY_MS)
    /\ edgeAge' = Aged(edgeAge, RECONNECT_DELAY_MS)
    /\ pc' = "rc_while"
    /\ UNCHANGED <<env, connected, lastSensorTime, lastSafetyTime, safetyState,
                   lastSafetyPublish, currentTime, prevEmergencyStop, evalLocals, pubHist, sensLocals, schedHist,
                   pending, ret,
                   hw, spent, retries, drops, safetyPubs, signalled, ran, dueAtSnap,
                   safetyOwed, cadenceOk, everPublished, retriesSinceEval>>

\* main.cpp:100-102  mqttClient.loop(); unsigned long currentTime = millis();
Service ==
    /\ pc = "service"
    /\ \E d \in env.idle : Elapse(d)
    /\ currentTime' = clock'
    /\ dueAtSnap' = { c \in {"safety", "sensor"} :
                        Due(clock', IF c = "safety" THEN lastSafetyTime
                                    ELSE lastSensorTime, Period(c)) }
    /\ trueAt' = [trueAt EXCEPT !.snap = uptime']
    /\ pc' = "sched1"
    /\ UNCHANGED <<connected, lastSensorTime, lastSafetyTime, safetyState,
                   lastSafetyPublish, prevEmergencyStop, evalLocals, pubHist,
                   sensLocals, lagAt, pending, ret,
                   hw, retries, drops, safetyPubs, signalled, ran,
                   safetyOwed, cadenceOk, everPublished, retriesSinceEval>>

SlotOf(p) == IF p = "sched1" THEN 1 ELSE 2
AfterSlot(p) == IF p = "sched1" THEN "sched2" ELSE "loop_top"

\* main.cpp:105-108  if (currentTime - lastSafetyTime >= SAFETY_INTERVAL)
\*                     { lastSafetyTime = currentTime; checkSafety(); }
DispatchSafety ==
    /\ pc \in {"sched1", "sched2"}
    /\ DispatchOrder[SlotOf(pc)] = "safety"
    /\ IF Due(currentTime, lastSafetyTime, SAFETY_INTERVAL)
       THEN /\ lastSafetyTime' = Stamp(currentTime, lastSafetyTime, SAFETY_INTERVAL)
            /\ trueAt' = [trueAt EXCEPT !.safety = trueAt.snap]
            /\ lagAt' = [lagAt EXCEPT !.safety = trueAt.snap - trueAt.safety]
            /\ pc' = "cs_estop"
            /\ ret' = AfterSlot(pc)
            /\ ran' = Append(ran, "safety")
            /\ safetyOwed' = IF safetyOwed = "owed" THEN "served" ELSE safetyOwed
            /\ retriesSinceEval' = 0
            /\ cadenceOk' = (cadenceOk /\ Sub(currentTime, lastSafetyTime) = SAFETY_INTERVAL)
       ELSE /\ pc' = AfterSlot(pc)
            /\ UNCHANGED <<lastSafetyTime, ret, ran, safetyOwed, retriesSinceEval,
                           cadenceOk, schedHist>>
    /\ NoTime
    /\ UNCHANGED <<connected, lastSensorTime, safetyState,
                   lastSafetyPublish, currentTime, prevEmergencyStop, evalLocals,
                   pubHist, sensLocals, pending,
                   hw, retries, drops, safetyPubs, signalled, dueAtSnap,
                   everPublished>>

\* main.cpp:111-114  if (currentTime - lastSensorTime >= SENSOR_INTERVAL)
\*                     { lastSensorTime = currentTime; readSensors(); }
DispatchSensor ==
    /\ pc \in {"sched1", "sched2"}
    /\ DispatchOrder[SlotOf(pc)] = "sensor"
    /\ IF Due(currentTime, lastSensorTime, SENSOR_INTERVAL)
       THEN /\ lastSensorTime' = Stamp(currentTime, lastSensorTime, SENSOR_INTERVAL)
            /\ trueAt' = [trueAt EXCEPT !.sensor = trueAt.snap]
            /\ lagAt' = [lagAt EXCEPT !.sensor = trueAt.snap - trueAt.sensor]
            /\ pc' = "rs_read"
            /\ ret' = AfterSlot(pc)
            /\ ran' = Append(ran, "sensor")
       ELSE /\ pc' = AfterSlot(pc)
            /\ UNCHANGED <<lastSensorTime, ret, ran, schedHist>>
    /\ NoTime
    /\ UNCHANGED <<connected, lastSafetyTime, safetyState,
                   lastSafetyPublish, currentTime, prevEmergencyStop, evalLocals,
                   pubHist, sensLocals, pending,
                   hw, retries, drops, safetyPubs, signalled, dueAtSnap,
                   safetyOwed, cadenceOk, everPublished, retriesSinceEval>>

\* --------------------------------------------------------- checkSafety()

loopState == <<connected, lastSensorTime, lastSafetyTime, currentTime, ret,
               retries, drops, ran, dueAtSnap, safetyOwed, retriesSinceEval,
               schedHist>>

\* main.cpp:180-183  prevEmergencyStop = safetyState.emergencyStop;
\*                   safetyState.emergencyStop = !digitalRead(EMERGENCY_STOP_PIN);
CsEstop ==
    /\ pc = "cs_estop"
    /\ prevEmergencyStop' = safetyState.emergencyStop
    /\ entryState' = safetyState
    /\ why' = {}
    /\ safetyState' = [safetyState EXCEPT !.emergencyStop = EmergencyStopOf(hw.estopPin)]
    /\ fresh' = {"emergencyStop"}
    /\ safetyPubs' = 0
    /\ signalled' = FALSE
    /\ pc' = StepAfter("cs_estop")
    /\ NoTime
    /\ UNCHANGED <<loopState, hw, lastSafetyPublish, current1, current2, temp1,
                   pending, cadenceOk, everPublished, pubHist, sensLocals>>

\* main.cpp:184  safetyState.doorClosed = !digitalRead(DOOR_SENSOR_PIN);
CsDoor ==
    /\ pc = "cs_door"
    /\ safetyState' = [safetyState EXCEPT !.doorClosed = DoorClosedOf(hw.doorPin)]
    /\ fresh' = fresh \cup {"doorClosed"}
    /\ pc' = StepAfter("cs_door")
    /\ NoTime
    /\ UNCHANGED <<loopState, hw, lastSafetyPublish, prevEmergencyStop, current1,
                   current2, temp1, entryState, why, pending, safetyPubs,
                   signalled, cadenceOk, everPublished, pubHist, sensLocals>>

\* main.cpp:187-189  current1 = readCurrent(..1); current2 = readCurrent(..2);
\*                   safetyState.overloadDetected = (current1 > 10.0) || (current2 > 10.0);
CsOverload ==
    /\ pc = "cs_overload"
    /\ current1' = readCurrent(hw.adc1)
    /\ current2' = readCurrent(hw.adc2)
    /\ safetyState' = [safetyState EXCEPT
                         !.overloadDetected = Overload(current1', current2')]
    /\ fresh' = fresh \cup {"overloadDetected"}
    /\ pc' = StepAfter("cs_overload")
    /\ NoTime
    /\ UNCHANGED <<loopState, hw, lastSafetyPublish, prevEmergencyStop, temp1,
                   entryState, why, pending, safetyPubs, signalled, cadenceOk,
                   everPublished, pubHist, sensLocals>>

\* main.cpp:192-193  temp1 = readTemperature(TEMP_SENSOR_PIN_1);
\*                   safetyState.temperatureOk = (temp1 < 85.0);
CsTemp ==
    /\ pc = "cs_temp"
    /\ temp1' = TemperatureAt[hw.adcT]
    /\ safetyState' = [safetyState EXCEPT !.temperatureOk = TemperatureOk(temp1')]
    /\ fresh' = fresh \cup {"temperatureOk"}
    /\ pc' = StepAfter("cs_temp")
    /\ NoTime
    /\ UNCHANGED <<loopState, hw, lastSafetyPublish, prevEmergencyStop, current1,
                   current2, entryState, why, pending, safetyPubs, signalled, cadenceOk,
                   everPublished, pubHist, sensLocals>>

\* main.cpp:197-198  if (prevEmergencyStop != safetyState.emergencyStop ||
\*                       millis() - lastSafetyPublish > 1000)
\* A true test calls the publisher at once: an e-stop press that the state
\* holds is reported from here on.
CsDecide ==
    /\ pc = "cs_decide"
    /\ pending' = SafetyPublishCalls(prevEmergencyStop, safetyState.emergencyStop,
                                     clock, lastSafetyPublish)
    /\ why' = {t \in {"edge", "beat"} :
                  \/ t = "edge" /\ prevEmergencyStop # safetyState.emergencyStop
                  \/ t = "beat" /\ HeartbeatDue(clock, lastSafetyPublish)}
    /\ pc' = IF pending' > 0 THEN "cs_publish" ELSE StepAfter("cs_decide")
    /\ edgeAge' = IF pending' > 0 /\ safetyState.emergencyStop THEN -1 ELSE edgeAge
    /\ UNCHANGED <<clock, uptime, spent, hazardAge, env>>
    /\ UNCHANGED <<loopState, hw, safetyState, lastSafetyPublish, prevEmergencyStop,
                   current1, current2, temp1, entryState, fresh, safetyPubs,
                   signalled, cadenceOk, everPublished, pubHist, sensLocals>>

\* main.cpp:199  publishSafetyData(): main.cpp:232-250 formats the four fields
\* of safetyState and hands the message to mqttClient.publish() once; the
\* call takes time, fails when the link is down and may fail when it is up,
\* and its result is dropped.
CsPublish ==
    /\ pc = "cs_publish"
    /\ \E d \in env.pub : Elapse(d)
    /\ payload' = safetyState
    /\ \E ok \in (IF connected THEN BOOLEAN ELSE {FALSE}) :
         delivered' = IF ok THEN "sent" ELSE "failed"
    /\ safetyPubs' = safetyPubs + 1
    /\ pending' = pending - 1
    /\ everPublished' = TRUE
    /\ cadenceOk' = TRUE
    /\ pc' = "cs_stamp"
    /\ UNCHANGED <<loopState, hw, safetyState, lastSafetyPublish, publishedAt,
                   prevEmergencyStop, evalLocals, signalled, sensLocals>>

\* main.cpp:200  lastSafetyPublish = millis();
CsStamp ==
    /\ pc = "cs_stamp"
    /\ lastSafetyPublish' = PublishStamp(delivered = "sent", clock, lastSafetyPublish)
    /\ publishedAt' = uptime
    /\ pc' = IF pending > 0 THEN "cs_publish" ELSE StepAfter("cs_decide")
    /\ NoTime
    /\ UNCHANGED <<loopState, hw, safetyState, prevEmergencyStop, evalLocals,
                   pending, safetyPubs, signalled, cadenceOk, everPublished,
                   payload, delivered, sensLocals>>

\* main.cpp:204-208  if (emergencyStop || !doorClosed || overloadDetected ||
\*                       !temperatureOk) Serial.println("SAFETY TRIGGERED!");
CsAction ==
    /\ pc = "cs_action"
    /\ signalled' = Unsafe(safetyState)
    /\ hazardAge' = IF signalled' THEN -1 ELSE hazardAge
    /\ pc' = StepAfter("cs_action")
    /\ UNCHANGED <<clock, uptime, spent, edgeAge, env>>
    /\ UNCHANGED <<loopState, hw, safetyState, lastSafetyPublish, prevEmergencyStop,
                   evalLocals, pending, safetyPubs, cadenceOk, everPublished,
                   pubHist, sensLocals>>

\* main.cpp:209  return: the locals go out of scope.
CsReturn ==
    /\ pc = "cs_return"
    /\ pc' = ret
    /\ prevEmergencyStop' = FALSE
    /\ current1' = 0 /\ current2' = 0 /\ temp1' = FloatZero
    /\ entryState' = safetyState
    /\ why' = {}
    /\ fresh' = {}
    /\ delivered' = "none"
    /\ NoTime
    /\ UNCHANGED <<loopState, hw, safetyState, lastSafetyPublish, pending,
                   safetyPubs, signalled, cadenceOk, everPublished, payload,
                   publishedAt, sensLocals>>

\* --------------------------------------------------------- readSensors()

evalRest == <<lastSafetyPublish, prevEmergencyStop, evalLocals, pending,
              safetyPubs, signalled, cadenceOk, everPublished, pubHist>>
evalState == <<safetyState, evalRest>>

\* main.cpp:156-170  the three analog reads and the MPU6050 read: the
\* vibration locals start at zero and take the accelerations only if
\* mpu.getEvent() succeeds.
RsRead ==
    /\ pc = "rs_read"
    /\ \E ok \in BOOLEAN, reading \in VibReadings :
         /\ mpuOk' = IF ok THEN "ok" ELSE "failed"
         /\ telemetry' = [current1 |-> readCurrent(hw.adc1),
                          current2 |-> readCurrent(hw.adc2),
                          temp1 |-> TemperatureAt[hw.adcT],
                          vib |-> Vibration(ok, reading)]
    /\ safetyState' = SensorCycleState(safetyState)
    /\ pc' = "rs_publish"
    /\ NoTime
    /\ UNCHANGED <<loopState, hw, evalRest>>

\* main.cpp:173  publishSensorData(current1, current2, temp1, vibX, vibY, vibZ)
\* (main.cpp:211-230) formats its arguments and publishes them; then
\* readSensors() returns and its locals go out of scope.
RsPublish ==
    /\ pc = "rs_publish"
    /\ \E d \in env.sens : Elapse(d)
    /\ safetyOwed' = IF Due(clock', lastSafetyTime, SAFETY_INTERVAL)
                      THEN "owed" ELSE "no"
    /\ telemetry' = "none"
    /\ mpuOk' = "none"
    /\ pc' = ret
    /\ UNCHANGED <<connected, lastSensorTime, lastSafetyTime, currentTime, ret,
                   retries, drops, ran, dueAtSnap, retriesSinceEval, schedHist,
                   hw, evalState>>

\* ------------------------------------------------------------ environment

\* The e-stop pressed on an otherwise nominal machine.
PressedInputs == [NominalInputs EXCEPT !.estopPin = 0]

SetInputs(S) ==
    /\ \E h \in S :
         /\ h # hw
         /\ hw' = h
         /\ hazardAge' = IF ~InputsUnsafe(h) THEN -1
                         ELSE IF ~InputsUnsafe(hw) THEN 0
                         ELSE hazardAge
         /\ edgeAge' = IF /\ h = PressedInputs
                          /\ hw = NominalInputs
                          /\ ~safetyState.emergencyStop
                       THEN 0 ELSE -1
    /\ UNCHANGED <<clock, uptime, spent, env>>
    /\ UNCHANGED <<loopState, evalState, sensLocals, pc>>

\* The machine changes state under the running scheduler.
InputChange ==
    /\ pc # "harness"
    /\ SetInputs(InputsOf(env.inputs))

\* The broker or the network goes away.
LinkDrop ==
    /\ pc # "harness"
    /\ connected
    /\ drops < env.drops
    /\ connected' = FALSE
    /\ drops' = drops + 1
    /\ NoTime
    /\ UNCHANGED <<lastSensorTime, lastSafetyTime, currentTime, ret, retries, ran,
                   dueAtSnap, safetyOwed, retriesSinceEval, schedHist, hw,
                   evalState, sensLocals, pc>>

checkSafety ==
    CsEstop \/ CsDoor \/ CsOverload \/ CsTemp \/ CsDecide \/ CsPublish
        \/ CsStamp \/ CsAction \/ CsReturn

readSensors == RsRead \/ RsPublish

reconnectMQTT == RcWhile \/ RcConnect \/ RcDelay

loop == LoopTop \/ Service \/ DispatchSafety \/ DispatchSensor

Next ==
    \/ loop
    \/ reconnectMQTT
    \/ checkSafety
    \/ readSensors
    \/ InputChange
    \/ LinkDrop

Spec == Init /\ [][Next]_vars

\* ------------------------------------------- checkSafety() called directly

\* A test bench sets the pins and calls checkSafety(); loop() does not run.
InitEval ==
    /\ InitCommon
    /\ env = BenchProfile
    /\ clock \in BootClocks
    /\ uptime = clock
    /\ pc = "harness"
    /\ ret = "harness"

Inject ==
    /\ pc = "harness"
    /\ SetInputs(InputsOf(env.inputs))

CallCheckSafety ==
    /\ pc = "harness"
    /\ pc' = "cs_estop"
    /\ NoTime
    /\ UNCHANGED <<connected, lastSensorTime, lastSafetyTime, currentTime, ret,
                   retries, drops, ran, dueAtSnap, safetyOwed, retriesSinceEval,
                   schedHist, hw, evalState, sensLocals>>

NextEval ==
    \/ Inject
    \/ CallCheckSafety
    \/ checkSafety

SpecEval == InitEval /\ [][NextEval]_vars

\* ------------------------------------------------------------ properties

EvalEnded == pc = "cs_return"
InReadSensors == pc \in {"rs_read", "rs_publish"}
EdgeSeen == entryState.emergencyStop # safetyState.emergencyStop

\* C1: an evaluation that reads an emergency_stop value different from the one
\* the previous evaluation stored has called publishSafetyData() by the time
\* it ends, whether or not the heartbeat was due.
C1_EdgePublishes ==
    (pc \in {"cs_action", "cs_return"} /\ EdgeSeen) => safetyPubs >= 1

\* An evaluation ends having published on an edge alone: the clock has not
\* yet passed 1000 ms, so no heartbeat can have been due.
C1_Witness ==
    /\ EvalEnded /\ EdgeSeen /\ safetyPubs = 1
    /\ why = {"edge"}
    /\ everPublished /\ clock < HEARTBEAT_MS

\* C2: with the broker unreachable the device keeps evaluating safety: a
\* failed connect attempt blocks for 5 s, a hundred safety periods, so
\* checkSafety() is called between any two failed connect attempts.
C2_KeepsEvaluating == retriesSinceEval <= 1

\* C3: once the inputs have turned unsafe, the local safety action is
\* signalled no later than one safety period (50 ms) afterwards.
C3_SignalWithinPeriod == hazardAge <= SAFETY_INTERVAL

\* C4: at the end of an evaluation overload_detected is true exactly when one
\* of the two currents it read is above 10 A, whatever the flag was before.
C4_OverloadFollowsReads ==
    EvalEnded =>
        (safetyState.overloadDetected <=>
            (current1 > OVERLOAD_MA \/ current2 > OVERLOAD_MA))

\* The flag was set on entry and the evaluation, reading both channels at or
\* below 10 A, cleared it.
C4_Witness ==
    /\ EvalEnded
    /\ entryState.overloadDetected
    /\ ~safetyState.overloadDetected
    /\ current1 <= OVERLOAD_MA /\ current2 <= OVERLOAD_MA

\* C5: readSensors() only runs in an iteration whose snapshot leaves no safety
\* tick due, and if the snapshot found both cadences due, checkSafety() has
\* run first in that iteration.
C5_SafetyBeforeSensor ==
    InReadSensors =>
        /\ Sub(currentTime, lastSafetyTime) < SAFETY_INTERVAL
        /\ "safety" \in dueAtSnap => ran = <<"safety", "sensor">>

\* Both cadences were due and readSensors() starts after checkSafety().
C5_Witness ==
    /\ pc = "rs_read"
    /\ dueAtSnap = {"safety", "sensor"}
    /\ ran = <<"safety", "sensor">>

\* C6: when a safety tick is due as readSensors() returns, readSensors() is
\* not entered again before checkSafety() has been called.
C6_OverrunNeverSkipsSafety == InReadSensors => safetyOwed # "owed"

\* readSensors() runs again after an overrun whose safety tick was served.
C6_Witness == pc = "rs_read" /\ safetyOwed = "served"

HeartbeatGap == Sub(lastSafetyTime, lastSafetyPublish)

\* A heartbeat publish is about to be made after an earlier publish, with the
\* link up and every safety tick on time since.
OnCadenceHeartbeat ==
    /\ pc = "cs_publish" /\ safetyPubs = 0
    /\ why = {"beat"}
    /\ everPublished /\ cadenceOk

\* C7 as stated: with the link up and the safety ticks on their 50 ms cadence,
\* a heartbeat publish comes at most 1000 ms after the previous publish.
C7_HeartbeatWithin1000 == OnCadenceHeartbeat => HeartbeatGap <= HEARTBEAT_MS

\* C7 amended: the evaluation that makes the heartbeat publish starts at most
\* 1000 ms plus one safety period after the timestamp of the previous publish.
C7_HeartbeatWithin1050 ==
    OnCadenceHeartbeat => HeartbeatGap <= HEARTBEAT_MS + SAFETY_INTERVAL

C7_Witness ==
    OnCadenceHeartbeat /\ HeartbeatGap = HEARTBEAT_MS + SAFETY_INTERVAL

\* C8: an evaluation calls publishSafetyData() at most once, also when the
\* edge and the heartbeat test hold together, and nothing outside an
\* evaluation's publish step calls it.
C8_OnePublishPerEval ==
    /\ [](safetyPubs <= 1)
    /\ [][safetyPubs' > safetyPubs => pc = "cs_publish"]_vars

\* An evaluation ends after one publish with both tests true.
C8_Witness == EvalEnded /\ why = {"edge", "beat"} /\ safetyPubs = 1

BothPinsHigh == hw.estopPin = 1 /\ hw.doorPin = 1

\* C9 as stated: with both switch inputs at the pull-up level an evaluation
\* ends with emergency_stop = false and door_closed = true.
C9_PullUpDefault ==
    (EvalEnded /\ BothPinsHigh) =>
        (~safetyState.emergencyStop /\ safetyState.doorClosed)

\* C9 amended: it ends with emergency_stop = false and door_closed = false,
\* both fields being the inverse of the level read, and the local safety
\* action signalled.
C9_PullUpInverted ==
    (EvalEnded /\ BothPinsHigh) =>
        (~safetyState.emergencyStop /\ ~safetyState.doorClosed /\ signalled)

C9_Witness ==
    /\ EvalEnded /\ BothPinsHigh
    /\ entryState.doorClosed
    /\ ~safetyState.emergencyStop /\ ~safetyState.doorClosed

\* 12.003 A on channel 1 (the code nearest to 12 A), 50 C, door switch closed
\* (LOW), e-stop released (HIGH).
OverloadExample ==
    hw = [estopPin |-> 1, doorPin |-> 0, adc1 |-> 3537, adc2 |-> 2048,
          adcT |-> 2275]

\* C10: at the end of an evaluation the local safety action is signalled
\* exactly when emergency_stop, an open door, overload_detected or a failed
\* temperature_ok holds in the state it computed; 12 A at 50 C with the door
\* closed and the e-stop released gives {false, true, true, true} and a signal.
C10_SignalIffUnsafe ==
    EvalEnded =>
        /\ signalled <=>
              \/ safetyState.emergencyStop
              \/ ~safetyState.doorClosed
              \/ safetyState.overloadDetected
              \/ ~safetyState.temperatureOk
        /\ OverloadExample =>
              /\ safetyState = [emergencyStop |-> FALSE, doorClosed |-> TRUE,
                                overloadDetected |-> TRUE, temperatureOk |-> TRUE]
              /\ signalled

C10_Witness ==
    EvalEnded /\ OverloadExample /\ signalled /\ safetyState.overloadDetected

\* C11: publishSafetyData() is only called when the running evaluation has
\* written all four fields of safetyState, and the message it builds carries
\* exactly those four values: no publisher sees a partly updated state.
C11_PublisherSeesWholeState ==
    /\ pc = "cs_publish" => fresh = AllFields
    /\ pc = "cs_stamp" => (fresh = AllFields /\ payload = safetyState)

\* A message has been built from a state whose e-stop and door fields this
\* evaluation changed.
C11_Witness ==
    /\ pc = "cs_stamp" /\ fresh = AllFields
    /\ payload.emergencyStop # entryState.emergencyStop
    /\ payload.doorClosed # entryState.doorClosed

\* C12: when the e-stop is pressed on an otherwise nominal machine, the
\* evaluation that reports the press calls the safety publisher no later than
\* one safety period (50 ms) after the press.
C12_EdgePublishedWithinPeriod == edgeAge <= SAFETY_INTERVAL

\* C13: missed ticks are dropped.  A cadence is dispatched only when a full
\* period lies between this snapshot and the snapshot of its previous
\* dispatch, however many ticks an overrun has skipped, and an iteration of
\* loop() ends with every cadence its snapshot found due dispatched in it.
C13_NoCatchUp ==
    /\ pc = "cs_estop" => lagAt.safety >= SAFETY_INTERVAL
    /\ pc = "rs_read" => lagAt.sensor >= SENSOR_INTERVAL
    /\ pc = "loop_top" => \A c \in dueAtSnap : \E i \in 1..Len(ran) : ran[i] = c
    /\ Len(ran) = Cardinality({ran[i] : i \in 1..Len(ran)})

\* checkSafety() is dispatched with two or more safety periods gone since
\* its previous dispatch, after an overrun of readSensors().
C13_Witness ==
    /\ pc = "cs_estop"
    /\ lagAt.safety >= 2 * SAFETY_INTERVAL
    /\ safetyOwed = "served"

\* Time that has really passed between the stamp of the cadence about to be
\* tested and the snapshot of loop(), and since lastSafetyPublish was stamped.
CadenceUnderTest == DispatchOrder[SlotOf(pc)]
TrueElapsed == trueAt.snap - trueAt[CadenceUnderTest]
TrueSincePublish == uptime - publishedAt

\* C14: whenever less than 2^w ms have really passed since the stored
\* timestamp, loop() judges a cadence due exactly when at least its period has
\* passed, and checkSafety() judges the heartbeat due exactly when more than
\* 1000 ms have passed, on either side of a wrap of the clock.
C14_DueAcrossWrap ==
    /\ (pc \in {"sched1", "sched2"} /\ TrueElapsed < Modulus) =>
          (Due(currentTime,
               IF CadenceUnderTest = "safety" THEN lastSafetyTime ELSE lastSensorTime,
               Period(CadenceUnderTest))
             <=> TrueElapsed >= Period(CadenceUnderTest))
    /\ (pc = "cs_decide" /\ TrueSincePublish < Modulus) =>
          (HeartbeatDue(clock, lastSafetyPublish) <=> TrueSincePublish > HEARTBEAT_MS)

\* The safety cadence is judged due one period after its stamp with the
\* clock wrapped in between: the snapshot is numerically below the stamp.
C14_Witness ==
    /\ pc \in {"sched1", "sched2"} /\ CadenceUnderTest = "safety"
    /\ currentTime < lastSafetyTime
    /\ TrueElapsed = SAFETY_INTERVAL
    /\ Due(currentTime, lastSafetyTime, SAFETY_INTERVAL)

PublishFailed == safetyPubs >= 1 /\ delivered = "failed"

\* C15: an evaluation whose publish call failed ends as one whose publish
\* succeeded: the publisher was called once and not again, lastSafetyPublish
\* holds the time the call returned, the local safety action follows the
\* state computed, and the state and both cadence timestamps are those the
\* dispatch and the reads left.
C15_FailedPublishChangesNothing ==
    (EvalEnded /\ PublishFailed) =>
        /\ safetyPubs = 1
        /\ lastSafetyPublish = clock
        /\ publishedAt = uptime
        /\ signalled <=> Unsafe(safetyState)
        /\ fresh = AllFields /\ payload = safetyState
        /\ lastSafetyTime = currentTime
        /\ trueAt.safety = trueAt.snap

\* An evaluation ends after a publish call that failed on a connected link
\* and took time, with the local safety action signalled.
C15_Witness ==
    /\ EvalEnded /\ PublishFailed
    /\ connected
    /\ signalled
    /\ clock # currentTime

\* C16: when mpu.getEvent() fails, the vibration handed to publishSensorData()
\* is a value no real reading can take: it is not (0, 0, 0) nor any other
\* acceleration triple.
C16_FailedReadIsUnavailable ==
    (pc = "rs_publish" /\ mpuOk = "failed") =>
        (telemetry.vib # <<0, 0, 0>> /\ telemetry.vib \notin VibReadings)

\* C17: steps of a telemetry cycle (readSensors() with publishSensorData())
\* and of the safety publisher publishSafetyData() leave the four fields of
\* safetyState, lastSafetyTime and lastSafetyPublish as they were.
C17_OnlyEvaluatorWrites ==
    [][(InReadSensors \/ pc = "cs_publish") =>
          UNCHANGED <<safetyState, lastSafetyTime, lastSafetyPublish>>]_vars

\* A telemetry cycle has read its sensors while the state holds a pressed
\* e-stop that a safety publish has reported.
C17_Witness ==
    /\ pc = "rs_publish"
    /\ safetyState.emergencyStop
    /\ everPublished

\* C18: within an evaluation of an unsafe state the local safety action has
\* been signalled by the time the safety publisher is called.
C18_ActionBeforePublish ==
    (pc = "cs_publish" /\ Unsafe(safetyState)) => signalled

\* C19: an evaluation leaves in safetyState what the raw reads alone
\* determine, whatever the state held before: emergency_stop and door_closed
\* are the inverted pin levels, overload_detected is c1 > 10 A or c2 > 10 A,
\* temperature_ok is temp < 85 C (85 C itself is not ok).
C19_NoLatching ==
    EvalEnded =>
        safetyState =
            [emergencyStop |-> hw.estopPin = 0,
             doorClosed |-> hw.doorPin = 0,
             overloadDetected |->
                 (readCurrent(hw.adc1) > OVERLOAD_MA \/ readCurrent(hw.adc2) > OVERLOAD_MA),
             temperatureOk |-> FloatBelow(TemperatureAt[hw.adcT], TEMP_LIMIT)]

\* Every field was in its fault value on entry and the evaluation, with all
\* reads back in range, cleared them all.
C19_Witness ==
    /\ EvalEnded
    /\ entryState = [emergencyStop |-> TRUE, doorClosed |-> FALSE,
                     overloadDetected |-> TRUE, temperatureOk |-> FALSE]
    /\ safetyState = [emergencyStop |-> FALSE, doorClosed |-> TRUE,
                      overloadDetected |-> FALSE, temperatureOk |-> TRUE]

\* C20: an evaluation that finds emergency_stop unchanged and no more than
\* 1000 ms gone since the last safety publish makes no publish, whatever
\* the other three fields did; the message last reported changes only in a
\* publish that an e-stop edge or the heartbeat has caused.
C20_OtherChangesWaitForHeartbeat ==
    /\ []((pc \in {"cs_action", "cs_return"} /\ why = {}) =>
             (safetyPubs = 0 /\ delivered = "none"))
    /\ [][safetyPubs' > safetyPubs => why # {}]_vars
    /\ [][(everPublished /\ payload' # payload) =>
             (pc = "cs_publish" /\ why # {})]_vars

\* An evaluation saw the door change, published nothing, and the message
\* last published still carries the old door value.
C20_Witness ==
    /\ EvalEnded /\ why = {} /\ safetyPubs = 0
    /\ everPublished
    /\ safetyState.doorClosed # entryState.doorClosed
    /\ payload.doorClosed = entryState.doorClosed

====
